---- MODULE Spec2Model ----
(***************************************************************************)
(* The export scheduler (ExportManager), the per-job render pipeline       *)
(* (OffscreenRenderer.renderToVideo) and the batch orchestrator            *)
(* (processExportWithOffscreen) of SpineToVideo.                           *)
(*                                                                         *)
(* JavaScript runs one event loop: code between two awaits is one atomic   *)
(* step.  Each action below is one such synchronous stretch: a call of a   *)
(* public method up to the first await it reaches, or the continuation of  *)
(* one job after the promise it awaits is settled.                         *)
(***************************************************************************)
EXTENDS Integers, Sequences, FiniteSets, TLC

\* ------------------------------------------------------------------ bounds
MaxJobs == 4        \* exportTask calls in one behaviour of Spec
RenderJobs == 1     \* exportTask calls in one behaviour of RenderSpec
MaxFps == 2         \* largest frame rate a task may ask for
MaxLoads == 3       \* load calls on one SpineRenderer in SurfaceSpec

\* --------------------------------------------------------- program constants
maxConcurrent == 2

Jobs == 1..MaxJobs

\* ExportFormat: one representative of each branch of renderToVideo
Formats == {"png-sequence", "mp4-h264", "webm-vp9"}

\* task.duration in tenths of a second (1.0 s)
Durations == {10}

\* SpineRenderer.totalTime once task.animation is set: the duration of that
\* animation in task.files, in tenths of a second
AnimDurations == {10}

\* The OffscreenRenderTask values a caller may submit (totalTime stands for
\* the asset files and the animation name)
Tasks == [format : Formats, fps : 1..MaxFps, duration : Durations,
          totalTime : AnimDurations]

NoTask == [format |-> "png-sequence", fps |-> 1, duration |-> 10,
           totalTime |-> 10]

VARIABLES
    submitted,        \* number of exportTask calls; job j is the j-th call
    task,             \* task[j]: the OffscreenRenderTask of job j
    aborted,          \* aborted[j]: task.abortSignal.aborted of job j
    queue,            \* ExportManager.queue (job ids, head first)
    activeRenderers,  \* ExportManager.activeRenderers (renderer of job j is j)
    pc,               \* where job j stands
    frame,            \* frame[j]: updateAndRender calls issued by job j
    shots,            \* shots[j]: the capture calls job j issued to its
                      \* backend, each as the animation time it shows, in
                      \* steps of frameDelta since resetAnimation
    stamps,           \* stamps[j]: the timestamps job j passed to
                      \* encodeFrame, each the fraction num / den the
                      \* division computes
    backend,          \* capture backend of job j: none / started, and
                      \* stopped once its stop() was called
    configured,       \* the renderer of job j was configured for the task
                      \* (resize, setAnimation, setPaused, setTargetFPS,
                      \* resetAnimation, setBackgroundColor)
    promise,          \* promise returned by exportTask(j)
    error,            \* error thrown by / rejected with, for job j
    constructed,      \* an OffscreenRenderer was constructed for job j
    disposed,         \* dispose() was called on the renderer of job j
    starts,           \* renderToVideo calls for job j
    settles,          \* resolve/reject calls on the promise of job j
    startOrder,       \* jobs in the order renderToVideo was called
    \* processExportWithOffscreen, one call of it
    bpc,              \* where the call stands: idle (not called) / scan /
                      \* wait (Promise.all) / zip / returned / thrown
    selectedItems,    \* selectedItems, each item as its name; item.id is
                      \* its index
    configFormat,     \* config.format
    runAborted,       \* abortSignal.aborted
    scanned,          \* items the scan loop is done with
    tasks,            \* tasks[k]: item and animation of the k-th task; its
                      \* exportTask call is job k
    status,           \* status[i]: the onItemStatusChange events of item i
    progress,         \* the onProgress events, each <<current, total>>
    completed,        \* the counter completed
    zip,              \* the file names in the JSZip archive
    downloaded,       \* CanvasRecorder.download was called
    result,           \* the value returned
    \* a SpineRenderer
    hexArg,           \* the argument of the last setBackgroundColor call,
                      \* as its characters (<<>>: not called yet)
    bgColor,          \* SpineRenderer.bgColor, each component in 255ths
    skeleton,         \* SpineRenderer.skeleton: "null" or the asset it is of
    state,            \* SpineRenderer.state: "null" or the asset it is of
    bounds,           \* SpineRenderer.bounds and globalBounds, likewise
    urls,             \* SpineRenderer.urls, as the set of its object URLs
    objectUrls,       \* the object URLs created and not revoked
    isRunning,        \* SpineRenderer.isRunning: the render loop runs
    lpc,              \* where load stands: idle / parsing (at its awaits)
    loading,          \* the asset of the load call in flight
    loads,            \* load calls so far
    calls,            \* the last two methods called on the renderer
    loadResult        \* how the last load call ended: none / pending /
                      \* ok / failed

schedVars == <<aborted, queue, activeRenderers, pc, frame, shots, stamps, backend,
               configured, promise, error, constructed, disposed, starts, settles,
               startOrder>>

batchVars == <<bpc, selectedItems, configFormat, runAborted, scanned, tasks,
               status, progress, completed, zip, downloaded, result>>

colorVars == <<hexArg, bgColor>>

surfaceVars == <<skeleton, state, bounds, urls, objectUrls, isRunning, lpc,
                 loading, loads, calls, loadResult>>

rendererVars == <<colorVars, surfaceVars>>

vars == <<submitted, task, schedVars, batchVars, rendererVars>>

\* ------------------------------------------------------------ pure helpers

\* Math.ceil(a / b) for a >= 0, b > 0
Ceil(a, b) == (a + b - 1) \div b

\* recordDuration taking a duration of 0 as an explicit one
RecordDurationZeroExplicit(t) ==
    LET animDuration == IF t.totalTime # 0 THEN t.totalTime ELSE 20
    IN  IF t.duration >= 0 THEN t.duration ELSE animDuration

\* renderToVideo: recordDuration and totalFrames (durations in tenths)
RecordDuration(t) ==
    LET animDuration == IF t.totalTime # 0 THEN t.totalTime ELSE 20
    IN  IF t.duration > 0 THEN t.duration ELSE animDuration

TotalFrames(t) == Ceil(RecordDuration(t) * t.fps, 10)

IsImageSequence(t) == t.format \in {"png-sequence", "jpg-sequence"}
IsMP4H264(t) == t.format = "mp4-h264"

\* -------------------------------------------------- the scheduler's state
\* The part of the state processQueue and the job steps work on, as a record
State ==
    [queue |-> queue, activeRenderers |-> activeRenderers, pc |-> pc,
     frame |-> frame, shots |-> shots, backend |-> backend, promise |-> promise,
     error |-> error, constructed |-> constructed, disposed |-> disposed,
     starts |-> starts, settles |-> settles, startOrder |-> startOrder,
     aborted |-> aborted, configured |-> configured, stamps |-> stamps]

Install(s) ==
    /\ queue' = s.queue
    /\ activeRenderers' = s.activeRenderers
    /\ pc' = s.pc
    /\ frame' = s.frame
    /\ shots' = s.shots
    /\ backend' = s.backend
    /\ promise' = s.promise
    /\ error' = s.error
    /\ constructed' = s.constructed
    /\ disposed' = s.disposed
    /\ starts' = s.starts
    /\ settles' = s.settles
    /\ startOrder' = s.startOrder
    /\ aborted' = s.aborted
    /\ configured' = s.configured
    /\ stamps' = s.stamps

\* item.reject(err)
RejectItem(s, j, err) ==
    [s EXCEPT !.promise[j] = IF @ = "pending" THEN "rejected" ELSE @,
              !.error[j] = IF s.promise[j] = "pending" THEN err ELSE @,
              !.settles[j] = @ + 1,
              !.pc[j] = "settled"]

\* item.resolve(blob)
ResolveItem(s, j) ==
    [s EXCEPT !.promise[j] = IF @ = "pending" THEN "resolved" ELSE @,
              !.settles[j] = @ + 1,
              !.pc[j] = "settled"]

\* renderToVideo: resize, setAnimation, setPaused, setTargetFPS,
\* resetAnimation and setBackgroundColor on the renderer of job j
Configure(s, j) == [s EXCEPT !.configured[j] = TRUE]

\* renderToVideo: throw inside the try block; the catch stops the render loop
Throw(s, j, err) ==
    [s EXCEPT !.pc[j] = "thrown", !.error[j] = err]

\* the mp4-h264 loop body: mp4Recorder.encodeFrame((i * 1000000) / fps)
EncodeFrame(s, j, i) ==
    IF IsMP4H264(task[j])
    THEN [s EXCEPT !.stamps[j] =
                Append(@, [num |-> i * 1000000, den |-> task[j].fps])]
    ELSE s

\* the frame loop without the check of the abort signal
FrameLoopNoAbortCheck(s, j) ==
    IF s.frame[j] < TotalFrames(task[j])
    THEN LET s1 == EncodeFrame([s EXCEPT !.frame[j] = @ + 1,
                                                  !.pc[j] = "capture"],
                                        j, s.frame[j])
         IN  IF IsImageSequence(task[j]) \/ IsMP4H264(task[j])
             THEN [s1 EXCEPT !.shots[j] = Append(@, s1.frame[j])]
             ELSE s1
    ELSE [s EXCEPT !.pc[j] = "stop", !.backend[j] = "stopped"]

\* the frame loop testing the abort signal between updateAndRender and the
\* capture call
FrameLoopAbortAfterRender(s, j) ==
    IF s.frame[j] < TotalFrames(task[j])
    THEN LET s1 == EncodeFrame([s EXCEPT !.frame[j] = @ + 1], j, s.frame[j])
         IN  IF s.aborted[j]
             THEN Throw(s1, j, "AbortError")
             ELSE IF IsImageSequence(task[j]) \/ IsMP4H264(task[j])
                  THEN [s1 EXCEPT !.pc[j] = "capture",
                                  !.shots[j] = Append(@, s1.frame[j])]
                  ELSE [s1 EXCEPT !.pc[j] = "capture"]
    ELSE [s EXCEPT !.pc[j] = "stop", !.backend[j] = "stopped"]

\* the frame loop running while i <= totalFrames
FrameLoopInclusive(s, j) ==
    IF s.frame[j] <= TotalFrames(task[j])
    THEN IF s.aborted[j]
         THEN Throw(s, j, "AbortError")
         ELSE LET s1 == EncodeFrame([s EXCEPT !.frame[j] = @ + 1,
                                                  !.pc[j] = "capture"],
                                        j, s.frame[j])
              IN  IF IsImageSequence(task[j]) \/ IsMP4H264(task[j])
                  THEN [s1 EXCEPT !.shots[j] = Append(@, s1.frame[j])]
                  ELSE s1
    ELSE [s EXCEPT !.pc[j] = "stop", !.backend[j] = "stopped"]

\* the frame loop passing the time at the end of frame i to encodeFrame
FrameLoopStampAfterFrame(s, j) ==
    IF s.frame[j] < TotalFrames(task[j])
    THEN IF s.aborted[j]
         THEN Throw(s, j, "AbortError")
         ELSE LET s1 == EncodeFrame([s EXCEPT !.frame[j] = @ + 1,
                                              !.pc[j] = "capture"],
                                    j, s.frame[j] + 1)
              IN  IF IsImageSequence(task[j]) \/ IsMP4H264(task[j])
                  THEN [s1 EXCEPT !.shots[j] = Append(@, s1.frame[j])]
                  ELSE s1
    ELSE [s EXCEPT !.pc[j] = "stop", !.backend[j] = "stopped"]

\* renderToVideo: the head of a frame loop, at loop index frame[j], up to
\* the await in the loop body or, after the loop, the await of stop().
\* The body calls updateAndRender(frameDelta), which moves the animation
\* cursor, and then, except in the stream branch (which only pauses 10 ms),
\* hands the canvas to the backend: capture() or encodeFrame(timestamp).
FrameLoop(s, j) ==
    IF s.frame[j] < TotalFrames(task[j])
    THEN IF s.aborted[j]
         THEN Throw(s, j, "AbortError")
         ELSE LET s1 == EncodeFrame([s EXCEPT !.frame[j] = @ + 1,
                                                  !.pc[j] = "capture"],
                                        j, s.frame[j])
              IN  IF IsImageSequence(task[j]) \/ IsMP4H264(task[j])
                  THEN [s1 EXCEPT !.shots[j] = Append(@, s1.frame[j])]
                  ELSE s1
    ELSE [s EXCEPT !.pc[j] = "stop", !.backend[j] = "stopped"]

\* renderToVideo, from the call to the await of renderer.load
renderToVideo(s, j, t) ==
    LET s1 == [s EXCEPT !.starts[j] = @ + 1,
                        !.startOrder = Append(@, j)]
    IN  IF s1.aborted[j]
        THEN [s1 EXCEPT !.pc[j] = "thrown", !.error[j] = "AbortError"]
        ELSE [s1 EXCEPT !.pc[j] = "load"]

\* processQueue without the capacity check
RECURSIVE processQueueNoCap(_, _, _)
processQueueNoCap(s, tk, ctorOk) ==
    IF s.queue = <<>> THEN s
    ELSE LET item == Head(s.queue)
             s1 == [s EXCEPT !.queue = Tail(@)]
         IN  IF s1.aborted[item]
             THEN processQueueNoCap(RejectItem(s1, item, "AbortError"), tk, ctorOk)
             ELSE IF ~ctorOk
             THEN [s1 EXCEPT !.pc[item] = "lost"]
             ELSE renderToVideo(
                     [s1 EXCEPT !.constructed[item] = TRUE,
                                !.activeRenderers = @ \cup {item}],
                     item, tk[item])

\* processQueue taking the newest entry (pop) instead of the oldest (shift)
RECURSIVE processQueueLifo(_, _, _)
processQueueLifo(s, tk, ctorOk) ==
    IF Cardinality(s.activeRenderers) >= maxConcurrent THEN s
    ELSE IF s.queue = <<>> THEN s
    ELSE LET item == s.queue[Len(s.queue)]
             s1 == [s EXCEPT !.queue = SubSeq(@, 1, Len(@) - 1)]
         IN  IF s1.aborted[item]
             THEN processQueueLifo(RejectItem(s1, item, "AbortError"), tk, ctorOk)
             ELSE IF ~ctorOk
             THEN [s1 EXCEPT !.pc[item] = "lost"]
             ELSE renderToVideo(
                     [s1 EXCEPT !.constructed[item] = TRUE,
                                !.activeRenderers = @ \cup {item}],
                     item, tk[item])

\* processQueue without its own abort check, leaving it to renderToVideo
processQueueNoPrecheck(s, tk, ctorOk) ==
    IF Cardinality(s.activeRenderers) >= maxConcurrent THEN s
    ELSE IF s.queue = <<>> THEN s
    ELSE LET item == Head(s.queue)
             s1 == [s EXCEPT !.queue = Tail(@)]
         IN  IF ~ctorOk
             THEN [s1 EXCEPT !.pc[item] = "lost"]
             ELSE renderToVideo(
                     [s1 EXCEPT !.constructed[item] = TRUE,
                                !.activeRenderers = @ \cup {item}],
                     item, tk[item])

\* ExportManager.processQueue, up to its await; ctorOk: new OffscreenRenderer()
\* returns (it throws when WebGL or the Spine runtime is not available)
RECURSIVE processQueue(_, _, _)
processQueue(s, tk, ctorOk) ==
    IF Cardinality(s.activeRenderers) >= maxConcurrent THEN s
    ELSE IF s.queue = <<>> THEN s
    ELSE LET item == Head(s.queue)
             s1 == [s EXCEPT !.queue = Tail(@)]
         IN  IF s1.aborted[item]
             THEN processQueue(RejectItem(s1, item, "AbortError"), tk, ctorOk)
             ELSE IF ~ctorOk
             THEN [s1 EXCEPT !.pc[item] = "lost"]
             ELSE renderToVideo(
                     [s1 EXCEPT !.constructed[item] = TRUE,
                                !.activeRenderers = @ \cup {item}],
                     item, tk[item])

\* --------------------------------------------------------------- behaviour
Init ==
    /\ submitted = 0
    /\ task = [j \in Jobs |-> NoTask]
    /\ aborted = [j \in Jobs |-> FALSE]
    /\ queue = <<>>
    /\ activeRenderers = {}
    /\ pc = [j \in Jobs |-> "idle"]
    /\ frame = [j \in Jobs |-> 0]
    /\ shots = [j \in Jobs |-> <<>>]
    /\ stamps = [j \in Jobs |-> <<>>]
    /\ backend = [j \in Jobs |-> "none"]
    /\ configured = [j \in Jobs |-> FALSE]
    /\ promise = [j \in Jobs |-> "pending"]
    /\ error = [j \in Jobs |-> "none"]
    /\ constructed = [j \in Jobs |-> FALSE]
    /\ disposed = [j \in Jobs |-> FALSE]
    /\ starts = [j \in Jobs |-> 0]
    /\ settles = [j \in Jobs |-> 0]
    /\ startOrder = <<>>
    /\ bpc = "idle"
    /\ selectedItems = <<>>
    /\ configFormat = "png-sequence"
    /\ runAborted = FALSE
    /\ scanned = 0
    /\ tasks = <<>>
    /\ status = <<>>
    /\ progress = <<>>
    /\ completed = 0
    /\ zip = {}
    /\ downloaded = FALSE
    /\ result = 0
    /\ hexArg = <<>>
    /\ bgColor = <<0, 255, 0, 255>>
    /\ skeleton = "null"
    /\ state = "null"
    /\ bounds = "null"
    /\ urls = {}
    /\ objectUrls = {}
    /\ isRunning = FALSE
    /\ lpc = "idle"
    /\ loading = "null"
    /\ loads = 0
    /\ calls = <<>>
    /\ loadResult = "none"

\* ExportManager.exportTask(t); preAborted: t.abortSignal is already aborted
exportTask(t, preAborted, ctorOk) ==
    /\ submitted < MaxJobs
    /\ LET j == submitted + 1
           tk == [task EXCEPT ![j] = t]
           s == [State EXCEPT !.queue = Append(@, j),
                              !.pc[j] = "queued",
                              !.aborted[j] = preAborted]
       IN  /\ task' = tk
           /\ Install(processQueue(s, tk, ctorOk))
    /\ submitted' = submitted + 1
    /\ UNCHANGED <<batchVars, rendererVars>>

\* the owner of job j's AbortSignal calls abort()
Abort(j) ==
    /\ j <= submitted
    /\ ~aborted[j]
    /\ pc[j] \notin {"settled", "lost"}
    /\ aborted' = [aborted EXCEPT ![j] = TRUE]
    /\ UNCHANGED <<submitted, task, queue, activeRenderers, pc,
                   frame, shots, stamps, backend, configured, promise, error,
                   constructed, disposed, starts, settles, startOrder>>
    /\ UNCHANGED <<batchVars, rendererVars>>

JobStep(s) ==
    /\ Install(s)
    /\ UNCHANGED <<submitted, task, batchVars, rendererVars>>

\* renderToVideo starting the MP4Recorder without asking isWebCodecsSupported
LoadDoneNoSupportCheck(j, outcome, supported) ==
    /\ pc[j] = "load"
    /\ JobStep(
        IF outcome = "loadError" THEN Throw(State, j, "LoadError")
        ELSE IF outcome = "noAnimation" THEN Throw(State, j, "AnimationNotFound")
        ELSE IF aborted[j] THEN Throw(State, j, "AbortError")
        ELSE IF IsImageSequence(task[j])
             THEN FrameLoop([Configure(State, j)
                                EXCEPT !.backend[j] = "started"], j)
        ELSE IF IsMP4H264(task[j])
             THEN [Configure(State, j) EXCEPT !.pc[j] = "mp4start"]
        ELSE FrameLoop([Configure(State, j)
                            EXCEPT !.backend[j] = "started"], j))

\* renderToVideo looking for the animation after it configured the renderer
LoadDoneConfigureFirst(j, outcome, supported) ==
    /\ pc[j] = "load"
    /\ JobStep(
        IF outcome = "loadError" THEN Throw(State, j, "LoadError")
        ELSE IF outcome = "noAnimation"
             THEN Throw(Configure(State, j), j, "AnimationNotFound")
        ELSE IF aborted[j] THEN Throw(State, j, "AbortError")
        ELSE IF IsImageSequence(task[j])
             THEN FrameLoop([Configure(State, j)
                                EXCEPT !.backend[j] = "started"], j)
        ELSE IF IsMP4H264(task[j])
             THEN IF ~supported
                  THEN Throw(Configure(State, j), j, "Unsupported")
                  ELSE [Configure(State, j) EXCEPT !.pc[j] = "mp4start"]
        ELSE FrameLoop([Configure(State, j)
                            EXCEPT !.backend[j] = "started"], j))

\* renderToVideo resumes after `await this.renderer.load(files)`;
\* supported: what isWebCodecsSupported() answers
LoadDone(j, outcome, supported) ==
    /\ pc[j] = "load"
    /\ JobStep(
        IF outcome = "loadError" THEN Throw(State, j, "LoadError")
        ELSE IF outcome = "noAnimation" THEN Throw(State, j, "AnimationNotFound")
        ELSE IF aborted[j] THEN Throw(State, j, "AbortError")
        ELSE IF IsImageSequence(task[j])
             THEN FrameLoop([Configure(State, j)
                                EXCEPT !.backend[j] = "started"], j)
        ELSE IF IsMP4H264(task[j])
             THEN IF ~supported
                  THEN Throw(Configure(State, j), j, "Unsupported")
                  ELSE [Configure(State, j) EXCEPT !.pc[j] = "mp4start"]
        ELSE FrameLoop([Configure(State, j)
                            EXCEPT !.backend[j] = "started"], j))

\* renderToVideo resumes after `await mp4Recorder.start()`
Mp4StartDone(j, ok) ==
    /\ pc[j] = "mp4start"
    /\ JobStep(
        IF ok THEN FrameLoop([State EXCEPT !.backend[j] = "started"], j)
        ELSE Throw(State, j, "EncodeError"))

\* renderToVideo resumes after the await inside a frame loop
CaptureDone(j, ok) ==
    /\ pc[j] = "capture"
    /\ ok \/ IsImageSequence(task[j]) \/ IsMP4H264(task[j])
    /\ JobStep(
        IF ok THEN FrameLoop(State, j)
        ELSE Throw(State, j, "EncodeError"))

\* renderToVideo resumes after `await <backend>.stop()`
StopDone(j, ok) ==
    /\ pc[j] = "stop"
    /\ JobStep(
        IF ok THEN [State EXCEPT !.pc[j] = "returned"]
        ELSE Throw(State, j, "EncodeError"))

\* processQueue with the clean-up at the end of the try block, not in finally
SettleCleanupOnSuccess(j, ctorOk) ==
    /\ pc[j] \in {"returned", "thrown"}
    /\ IF pc[j] = "returned"
       THEN Install(processQueue(
                [ResolveItem(State, j) EXCEPT !.disposed[j] = TRUE,
                                              !.frame[j] = 0,
                                              !.shots[j] = <<>>,
                                              !.stamps[j] = <<>>,
                                              !.backend[j] = "none",
                                              !.activeRenderers = @ \ {j}],
                task, ctorOk))
       ELSE Install(RejectItem(State, j, error[j]))
    /\ UNCHANGED <<submitted, task, batchVars, rendererVars>>

\* processQueue resumes after `await renderer.renderToVideo(item.task)`:
\* resolve or reject, then the finally block; the locals item and renderer
\* (with the task, the loop counter and the backend) end with the call
SettleState(j, ctorOk) ==
    LET s1 == IF pc[j] = "returned" THEN ResolveItem(State, j)
              ELSE RejectItem(State, j, error[j])
        s2 == [s1 EXCEPT !.disposed[j] = TRUE,
                         !.frame[j] = 0,
                         !.shots[j] = <<>>,
                         !.stamps[j] = <<>>,
                         !.backend[j] = "none",
                         !.configured[j] = FALSE,
                         !.activeRenderers = @ \ {j}]
    IN  processQueue(s2, task, ctorOk)

Settle(j, ctorOk) ==
    /\ pc[j] \in {"returned", "thrown"}
    /\ Install(SettleState(j, ctorOk))
    /\ UNCHANGED <<submitted, task, batchVars, rendererVars>>

RECURSIVE RejectAll(_, _)
RejectAll(s, q) ==
    IF q = <<>> THEN s
    ELSE RejectAll(RejectItem(s, Head(q), "AbortError"), Tail(q))

\* cancelAll rejecting the queued items without emptying the queue
cancelAllKeepQueue ==
    /\ LET s1 == RejectAll(State, queue)
           s2 == [s1 EXCEPT !.disposed = [j \in Jobs |->
                                @[j] \/ j \in activeRenderers],
                            !.activeRenderers = {}]
       IN  Install(s2)
    /\ UNCHANGED <<submitted, task, batchVars, rendererVars>>

\* cancelAll disposing the active renderers without clearing the set
cancelAllKeepActive ==
    /\ LET s1 == RejectAll(State, queue)
           s2 == [s1 EXCEPT !.queue = <<>>,
                            !.disposed = [j \in Jobs |->
                                @[j] \/ j \in activeRenderers]]
       IN  Install(s2)
    /\ UNCHANGED <<submitted, task, batchVars, rendererVars>>

\* ExportManager.cancelAll()
cancelAll ==
    /\ LET s1 == RejectAll(State, queue)
           s2 == [s1 EXCEPT !.queue = <<>>,
                            !.disposed = [j \in Jobs |->
                                @[j] \/ j \in activeRenderers],
                            !.activeRenderers = {}]
       IN  Install(s2)
    /\ UNCHANGED <<submitted, task, batchVars, rendererVars>>

\* ExportManager.getQueueLength()
getQueueLength == Len(queue) + Cardinality(activeRenderers)

\* ------------------------------------------- processExportWithOffscreen
\* AnimationItem.name of the items a caller may select; names need not be
\* distinct
Selections == {<<>>, <<"A">>, <<"A", "A">>, <<"A", "B">>}

\* what tempRenderer.load(item.files) resolves with: the animation names
AnimLists == {<<>>, <<"idle">>, <<"idle", "run">>}

\* config.format of a batch
BatchFormats == {"png-sequence", "webm-vp9"}

\* the task every job of the batch gets from config (one frame)
BatchTask(fmt) ==
    [format |-> fmt, fps |-> 1, duration |-> 10, totalTime |-> 10]

\* the part of the state the callbacks of the batch work on, as a record
Batch ==
    [bpc |-> bpc, status |-> status, progress |-> progress,
     completed |-> completed, zip |-> zip, downloaded |-> downloaded,
     result |-> result]

InstallBatch(b) ==
    /\ bpc' = b.bpc
    /\ status' = b.status
    /\ progress' = b.progress
    /\ completed' = b.completed
    /\ zip' = b.zip
    /\ downloaded' = b.downloaded
    /\ result' = b.result

\* selectedItems.forEach(item => onItemStatusChange(item.id, st))
StatusAll(b, st) ==
    [b EXCEPT !.status = [i \in DOMAIN @ |-> Append(@[i], st)]]

\* the outer catch throwing the error again without the status pass
FailBatchNoStatus(b) == [b EXCEPT !.bpc = "thrown"]

\* the outer catch: every item 'failed', the error thrown again
FailBatch(b) == [StatusAll(b, "failed") EXCEPT !.bpc = "thrown"]

\* the strings of the batch, as their sequences of characters
Chars(str) ==
    CASE str = "A" -> <<"A">>
      [] str = "B" -> <<"B">>
      [] str = "idle" -> <<"i", "d", "l", "e">>
      [] str = "run" -> <<"r", "u", "n">>
      [] str = "zip" -> <<"z", "i", "p">>
      [] str = "mp4" -> <<"m", "p", "4">>
      [] str = "webm" -> <<"w", "e", "b", "m">>
      [] str = "png-sequence" ->
            <<"p", "n", "g", "-", "s", "e", "q", "u", "e", "n", "c", "e">>
      [] str = "jpg-sequence" ->
            <<"j", "p", "g", "-", "s", "e", "q", "u", "e", "n", "c", "e">>
      [] str = "mp4-h264" -> <<"m", "p", "4", "-", "h", "2", "6", "4">>
      [] str = "webm-vp9" -> <<"w", "e", "b", "m", "-", "v", "p", "9">>
      [] str = "webm-vp8" -> <<"w", "e", "b", "m", "-", "v", "p", "8">>

\* String.prototype.startsWith
StartsWith(cs, prefix) ==
    /\ Len(cs) >= Len(prefix)
    /\ SubSeq(cs, 1, Len(prefix)) = prefix

\* the extension chosen for a format with no branch for the webm family
ExtNoWebm(f) ==
    IF f = "png-sequence" \/ f = "jpg-sequence" THEN "zip" ELSE "mp4"

\* the extension chosen for config.format
Ext(f) ==
    IF f = "png-sequence" \/ f = "jpg-sequence" THEN "zip"
    ELSE IF f = "mp4-h264" THEN "mp4"
    ELSE IF StartsWith(Chars(f), Chars("webm")) THEN "webm" ELSE "mp4"

\* `${item.name}_${animation}.${ext}` of task k
Filename(k) ==
    Chars(selectedItems[tasks[k].item]) \o <<"_">>
        \o Chars(tasks[k].animation) \o <<".">> \o Chars(Ext(configFormat))

\* tasks.map, the callbacks up to their await: the onProgress and
\* onItemStatusChange calls of tasks k, k+1, ...
RECURSIVE SubmitEvents(_, _, _)
SubmitEvents(b, tks, k) ==
    IF k > Len(tks) THEN b
    ELSE SubmitEvents(
            [b EXCEPT !.progress = Append(@, <<b.completed + 1, Len(tks)>>),
                      !.status[tks[k].item] = Append(@, "exporting")],
            tks, k + 1)

\* tasks.map, the callbacks up to their await: the exportTask calls of
\* tasks k..n
RECURSIVE SubmitAll(_, _, _, _, _)
SubmitAll(s, tk, k, n, ctorOk) ==
    IF k > n THEN s
    ELSE SubmitAll(
            processQueue([s EXCEPT !.queue = Append(@, k),
                                   !.pc[k] = "queued",
                                   !.aborted[k] = FALSE],
                         tk, ctorOk),
            tk, k + 1, n, ctorOk)

\* the scan loop never reading the abort signal, and what follows it
ScanFromNoBreak(b, tks, i, sel, fmt, ctorOk) ==
    /\ tasks' = tks
    /\ scanned' = i
    /\ IF i < Len(sel)
       THEN /\ InstallBatch([b EXCEPT !.bpc = "scan"])
            /\ UNCHANGED <<submitted, task, schedVars>>
       ELSE IF Len(tks) = 0
       THEN /\ InstallBatch([b EXCEPT !.bpc = "returned", !.result = 0])
            /\ UNCHANGED <<submitted, task, schedVars>>
       ELSE LET b1 == [b EXCEPT !.progress = Append(@, <<0, Len(tks)>>),
                               !.completed = 0]
            IN  IF runAborted
                THEN /\ InstallBatch([b1 EXCEPT !.bpc = "returned",
                                                !.result = b1.completed])
                     /\ UNCHANGED <<submitted, task, schedVars>>
                ELSE LET tk == [j \in Jobs |->
                                  IF j <= Len(tks) THEN BatchTask(fmt)
                                  ELSE task[j]]
                     IN  /\ InstallBatch([SubmitEvents(b1, tks, 1)
                                            EXCEPT !.bpc = "wait"])
                         /\ task' = tk
                         /\ submitted' = Len(tks)
                         /\ Install(SubmitAll(State, tk, 1, Len(tks), ctorOk))

\* the scan loop and what follows it, with the first onProgress call placed
\* before the test for zero tasks
ScanFromProgressFirst(b, tks, i, sel, fmt, ctorOk) ==
    /\ tasks' = tks
    /\ scanned' = i
    /\ IF i < Len(sel) /\ ~runAborted
       THEN /\ InstallBatch([b EXCEPT !.bpc = "scan"])
            /\ UNCHANGED <<submitted, task, schedVars>>
       ELSE LET b1 == [b EXCEPT !.progress = Append(@, <<0, Len(tks)>>),
                               !.completed = 0]
            IN  IF Len(tks) = 0 \/ runAborted
                THEN /\ InstallBatch([b1 EXCEPT !.bpc = "returned",
                                                !.result = b1.completed])
                     /\ UNCHANGED <<submitted, task, schedVars>>
                ELSE LET tk == [j \in Jobs |->
                                  IF j <= Len(tks) THEN BatchTask(fmt)
                                  ELSE task[j]]
                     IN  /\ InstallBatch([SubmitEvents(b1, tks, 1)
                                            EXCEPT !.bpc = "wait"])
                         /\ task' = tk
                         /\ submitted' = Len(tks)
                         /\ Install(SubmitAll(State, tk, 1, Len(tks), ctorOk))

\* the scan loop from its head, with i items done and the tasks tks found;
\* when the loop is over, all that follows it up to the next await: the
\* zero-task return, or the submission of every task and, with the signal
\* set (each callback returns at once), the return after Promise.all
ScanFrom(b, tks, i, sel, fmt, ctorOk) ==
    /\ tasks' = tks
    /\ scanned' = i
    /\ IF i < Len(sel) /\ ~runAborted
       THEN /\ InstallBatch([b EXCEPT !.bpc = "scan"])
            /\ UNCHANGED <<submitted, task, schedVars>>
       ELSE IF Len(tks) = 0
       THEN /\ InstallBatch([b EXCEPT !.bpc = "returned", !.result = 0])
            /\ UNCHANGED <<submitted, task, schedVars>>
       ELSE LET b1 == [b EXCEPT !.progress = Append(@, <<0, Len(tks)>>),
                               !.completed = 0]
            IN  IF runAborted
                THEN /\ InstallBatch([b1 EXCEPT !.bpc = "returned",
                                                !.result = b1.completed])
                     /\ UNCHANGED <<submitted, task, schedVars>>
                ELSE LET tk == [j \in Jobs |->
                                  IF j <= Len(tks) THEN BatchTask(fmt)
                                  ELSE task[j]]
                     IN  /\ InstallBatch([SubmitEvents(b1, tks, 1)
                                            EXCEPT !.bpc = "wait"])
                         /\ task' = tk
                         /\ submitted' = Len(tks)
                         /\ Install(SubmitAll(State, tk, 1, Len(tks), ctorOk))

\* processExportWithOffscreen(sel, config with format fmt, callbacks,
\* abortSignal), up to its first await; rendererOk: new SpineRenderer
\* returns (it throws when WebGL or the Spine runtime is not available)
processExportWithOffscreen(sel, fmt, rendererOk) ==
    /\ bpc = "idle"
    /\ selectedItems' = sel
    /\ configFormat' = fmt
    /\ UNCHANGED <<runAborted, rendererVars>>
    /\ LET b == [Batch EXCEPT !.status = [i \in 1..Len(sel) |-> <<"waiting">>]]
       IN  IF rendererOk
           THEN ScanFrom(b, <<>>, 0, sel, fmt, TRUE)
           ELSE /\ InstallBatch(FailBatch(b))
                /\ UNCHANGED <<tasks, scanned, submitted, task, schedVars>>

\* the scan loop without its try/catch: a failed load reaches the outer catch
ScanDoneNoCatch(ok, anims, ctorOk) ==
    /\ bpc = "scan"
    /\ ok \/ anims = <<>>
    /\ LET i == scanned + 1
           tks == tasks \o [k \in 1..Len(anims) |->
                              [item |-> i, animation |-> anims[k]]]
       IN  IF ok
           THEN ScanFrom(Batch, tks, i, selectedItems, configFormat, ctorOk)
           ELSE /\ InstallBatch(FailBatch(Batch))
                /\ scanned' = i
                /\ UNCHANGED <<tasks, submitted, task, schedVars>>
    /\ UNCHANGED <<selectedItems, configFormat, runAborted, rendererVars>>

\* the scan loop resumes after `await tempRenderer.load(item.files)`, which
\* resolved with anims (ok) or rejected
ScanDone(ok, anims, ctorOk) ==
    /\ bpc = "scan"
    /\ ok \/ anims = <<>>
    /\ LET i == scanned + 1
           b == IF ok THEN Batch
                ELSE [Batch EXCEPT !.status[i] = Append(@, "failed")]
           tks == IF ok
                  THEN tasks \o [k \in 1..Len(anims) |->
                                    [item |-> i, animation |-> anims[k]]]
                  ELSE tasks
       IN  ScanFrom(b, tks, i, selectedItems, configFormat, ctorOk)
    /\ UNCHANGED <<selectedItems, configFormat, runAborted, rendererVars>>

\* the map callback without its try/catch: a rejected job rejects
\* Promise.all and reaches the outer catch
CallbackNoCatch(b, s, k) ==
    IF s.promise[k] = "resolved"
    THEN IF runAborted THEN b
         ELSE [b EXCEPT !.zip = @ \cup {Filename(k)},
                        !.completed = @ + 1,
                        !.progress = Append(@, <<b.completed + 1, Len(tasks)>>)]
    ELSE FailBatch(b)

\* the map callback calling onProgress before it counts the job
CallbackProgressBeforeCount(b, s, k) ==
    IF s.promise[k] = "resolved"
    THEN IF runAborted THEN b
         ELSE [b EXCEPT !.zip = @ \cup {Filename(k)},
                        !.completed = @ + 1,
                        !.progress = Append(@, <<b.completed, Len(tasks)>>)]
    ELSE [b EXCEPT !.status[tasks[k].item] = Append(@, "failed")]

\* the map callback of task k resumes after
\* `await exportManager.exportTask(task)`, its promise settled as in s
Callback(b, s, k) ==
    IF s.promise[k] = "resolved"
    THEN IF runAborted THEN b
         ELSE [b EXCEPT !.zip = @ \cup {Filename(k)},
                        !.completed = @ + 1,
                        !.progress = Append(@, <<b.completed + 1, Len(tasks)>>)]
    ELSE [b EXCEPT !.status[tasks[k].item] = Append(@, "failed")]

\* the callbacks of the tasks k, k+1, ... whose promises this step settled
RECURSIVE RunCallbacks(_, _, _)
RunCallbacks(b, s, k) ==
    IF k > Len(tasks) THEN b
    ELSE RunCallbacks(
            IF promise[k] = "pending" /\ s.promise[k] # "pending"
            THEN Callback(b, s, k) ELSE b,
            s, k + 1)

\* the continuation of Promise.all returning without the status pass when
\* no job succeeded
AllSettledNoStatusPass(b) ==
    IF runAborted THEN [b EXCEPT !.bpc = "returned", !.result = b.completed]
    ELSE IF b.completed > 0
    THEN [b EXCEPT !.progress = Append(@, <<b.completed, Len(tasks)>>),
                   !.bpc = "zip"]
    ELSE [b EXCEPT !.bpc = "returned", !.result = b.completed]

\* the continuation of Promise.all without the test of the abort signal
AllSettledNoAbortCheck(b) ==
    IF b.completed > 0
    THEN [b EXCEPT !.progress = Append(@, <<b.completed, Len(tasks)>>),
                   !.bpc = "zip"]
    ELSE [StatusAll(b, "completed") EXCEPT !.bpc = "returned",
                                          !.result = b.completed]

\* processExportWithOffscreen resumes after `await Promise.all`, up to the
\* await of zip.generateAsync or the return
AllSettled(b) ==
    IF runAborted THEN [b EXCEPT !.bpc = "returned", !.result = b.completed]
    ELSE IF b.completed > 0
    THEN [b EXCEPT !.progress = Append(@, <<b.completed, Len(tasks)>>),
                   !.bpc = "zip"]
    ELSE [StatusAll(b, "completed") EXCEPT !.bpc = "returned",
                                          !.result = b.completed]

\* a job of the batch settles: Settle, then the callbacks waiting for the
\* promises it settled and, once no callback is left waiting, the
\* continuation of Promise.all (all of it microtasks of the same turn)
ExportTaskDone(j, ctorOk) ==
    /\ bpc = "wait"
    /\ pc[j] \in {"returned", "thrown"}
    /\ LET s == SettleState(j, ctorOk)
           b == RunCallbacks(Batch, s, 1)
       IN  /\ Install(s)
           /\ InstallBatch(
                IF \A k \in 1..Len(tasks) : s.promise[k] # "pending"
                THEN AllSettled(b) ELSE b)
    /\ UNCHANGED <<submitted, task, selectedItems, configFormat, runAborted,
                   scanned, tasks, rendererVars>>

\* processExportWithOffscreen resumes after `await zip.generateAsync(...)`
ZipDone(ok) ==
    /\ bpc = "zip"
    /\ InstallBatch(
        IF ok
        THEN [StatusAll([Batch EXCEPT !.downloaded = TRUE], "completed")
                EXCEPT !.bpc = "returned", !.result = completed]
        ELSE FailBatch(Batch))
    /\ UNCHANGED <<submitted, task, schedVars, selectedItems, configFormat,
                   runAborted, scanned, tasks, rendererVars>>

\* the owner of the run's AbortSignal calls abort(); every task of the
\* batch carries that signal
AbortRun ==
    /\ ~runAborted
    /\ bpc \in {"idle", "scan", "wait", "zip"}
    /\ runAborted' = TRUE
    /\ aborted' = [j \in Jobs |-> j <= submitted]
    /\ UNCHANGED <<submitted, task, queue, activeRenderers, pc, frame, shots,
                   stamps, backend, configured, promise, error, constructed,
                   disposed,
                   starts, settles, startOrder>>
    /\ UNCHANGED <<bpc, selectedItems, configFormat, scanned, tasks, status,
                   progress, completed, zip, downloaded, result, rendererVars>>

\* ------------------------------------------------------------ SpineRenderer
\* the value of a hexadecimal digit
HexVal(c) ==
    CASE c = "0" -> 0 [] c = "1" -> 1 [] c = "2" -> 2 [] c = "3" -> 3
      [] c = "4" -> 4 [] c = "5" -> 5 [] c = "6" -> 6 [] c = "7" -> 7
      [] c = "8" -> 8 [] c = "9" -> 9
      [] c \in {"a", "A"} -> 10 [] c \in {"b", "B"} -> 11
      [] c \in {"c", "C"} -> 12 [] c \in {"d", "D"} -> 13
      [] c \in {"e", "E"} -> 14 [] c \in {"f", "F"} -> 15

\* parseInt(cs, 16) of a non-empty string of hexadecimal digits
RECURSIVE ParseInt16(_)
ParseInt16(cs) ==
    IF Len(cs) = 0 THEN 0
    ELSE 16 * ParseInt16(SubSeq(cs, 1, Len(cs) - 1)) + HexVal(cs[Len(cs)])

\* String.prototype.slice(from, to), 0 <= from <= to
Slice(cs, from, to) ==
    SubSeq(cs, from + 1, IF to < Len(cs) THEN to ELSE Len(cs))

Transparent == <<"t", "r", "a", "n", "s", "p", "a", "r", "e", "n", "t">>

\* bgColor with the alpha digits never read
BgColorOpaque(hex) ==
    IF hex = Transparent THEN <<0, 0, 0, 0>>
    ELSE <<ParseInt16(Slice(hex, 1, 3)), ParseInt16(Slice(hex, 3, 5)),
           ParseInt16(Slice(hex, 5, 7)), 255>>

\* the bgColor setBackgroundColor(hex) assigns; a component x / 255 is the
\* number x, and 1.0 is 255
BgColorOf(hex) ==
    IF hex = Transparent THEN <<0, 0, 0, 0>>
    ELSE LET r == ParseInt16(Slice(hex, 1, 3))
             g == ParseInt16(Slice(hex, 3, 5))
             b == ParseInt16(Slice(hex, 5, 7))
             a == IF Len(hex) = 9 THEN ParseInt16(Slice(hex, 7, 9)) ELSE 255
         IN  <<r, g, b, a>>

\* SpineRenderer.setBackgroundColor(hex)
setBackgroundColor(hex) ==
    /\ hexArg' = hex
    /\ bgColor' = BgColorOf(hex)
    /\ UNCHANGED <<submitted, task, schedVars, batchVars, surfaceVars>>

\* the files a caller may pass to load: the asset they are of and whether
\* the skeleton and the atlas file are there (one image each)
SpineFiles ==
    {[asset |-> "A", skeleton |-> TRUE, atlas |-> TRUE],
     [asset |-> "B", skeleton |-> TRUE, atlas |-> TRUE],
     [asset |-> "B", skeleton |-> TRUE, atlas |-> FALSE],
     [asset |-> "A", skeleton |-> FALSE, atlas |-> TRUE]}

\* createAssetUrls(files) in the n-th load call: one fresh object URL for
\* each file there is
createAssetUrls(files, n) ==
    (IF files.skeleton THEN {<<n, "skeleton">>} ELSE {})
        \cup (IF files.atlas THEN {<<n, "atlas">>} ELSE {})
        \cup {<<n, "image">>}

\* revokeAssetUrls(us): what is left of the live object URLs
revokeAssetUrls(live, us) == live \ us

\* the method names of the last two calls, after a call of m
Called(m) ==
    IF Len(calls) < 2 THEN Append(calls, m) ELSE <<calls[2], m>>

\* SpineRenderer.load(files), up to its first await or its throw for a
\* missing file
load(files) ==
    /\ lpc = "idle"
    /\ loads < MaxLoads
    /\ loads' = loads + 1
    /\ calls' = Called("load")
    /\ skeleton' = "null"
    /\ state' = "null"
    /\ bounds' = "null"
    /\ IF ~files.skeleton \/ ~files.atlas
       THEN /\ objectUrls' = revokeAssetUrls(objectUrls, urls)
            /\ loadResult' = "failed"
            /\ UNCHANGED <<urls, lpc, loading>>
       ELSE /\ urls' = createAssetUrls(files, loads + 1)
            /\ objectUrls' = revokeAssetUrls(objectUrls, urls)
                                \cup createAssetUrls(files, loads + 1)
            /\ lpc' = "parsing"
            /\ loading' = files.asset
            /\ loadResult' = "pending"
    /\ UNCHANGED <<submitted, task, schedVars, batchVars, colorVars,
                   isRunning>>

\* load going on after its awaits (fetch of the atlas, the images, the
\* skeleton); outcome: one of them or the parser throws (parseError), a
\* call into the runtime throws once this.skeleton is assigned
\* (poseError) or once this.state is assigned too (boundsError), or load
\* returns the animation names (ok)
LoadResumes(outcome) ==
    /\ lpc = "parsing"
    /\ lpc' = "idle"
    /\ loading' = "null"
    /\ skeleton' = IF outcome = "parseError" THEN skeleton ELSE loading
    /\ state' = IF outcome \in {"parseError", "poseError"} THEN state
                ELSE loading
    /\ bounds' = IF outcome = "ok" THEN loading ELSE bounds
    /\ loadResult' = IF outcome = "ok" THEN "ok" ELSE "failed"
    /\ UNCHANGED <<submitted, task, schedVars, batchVars, colorVars,
                   urls, objectUrls, isRunning, loads, calls>>

\* SpineRenderer.start()
start ==
    /\ isRunning' = TRUE
    /\ calls' = Called("start")
    /\ UNCHANGED <<submitted, task, schedVars, batchVars, colorVars,
                   skeleton, state, bounds, urls, objectUrls, lpc, loading,
                   loads, loadResult>>

\* SpineRenderer.stop()
stop ==
    /\ isRunning' = FALSE
    /\ calls' = Called("stop")
    /\ UNCHANGED <<submitted, task, schedVars, batchVars, colorVars,
                   skeleton, state, bounds, urls, objectUrls, lpc, loading,
                   loads, loadResult>>

\* dispose revoking the URLs and keeping them in this.urls
disposeKeepUrls ==
    /\ isRunning' = FALSE
    /\ objectUrls' = revokeAssetUrls(objectUrls, urls)
    /\ calls' = Called("dispose")
    /\ UNCHANGED <<submitted, task, schedVars, batchVars, colorVars,
                   skeleton, state, bounds, urls, lpc, loading, loads,
                   loadResult>>

\* SpineRenderer.dispose()
dispose ==
    /\ isRunning' = FALSE
    /\ objectUrls' = revokeAssetUrls(objectUrls, urls)
    /\ urls' = {}
    /\ calls' = Called("dispose")
    /\ UNCHANGED <<submitted, task, schedVars, batchVars, colorVars,
                   skeleton, state, bounds, lpc, loading, loads, loadResult>>

\* --------------------------------------------------------- specifications
\* Spec: the scheduler under load.  Up to MaxJobs image-sequence jobs of one
\* frame; a signal is set before its job is dequeued or not at all; a job
\* that runs succeeds or fails in load.
SchedTasks == {t \in Tasks : t.format = "png-sequence" /\ t.fps = 1}

Next ==
    \/ \E t \in SchedTasks, pre \in BOOLEAN, ctorOk \in BOOLEAN :
            exportTask(t, pre, ctorOk)
    \/ \E j \in Jobs : pc[j] = "queued" /\ Abort(j)
    \/ \E j \in Jobs, o \in {"ok", "loadError"} : LoadDone(j, o, TRUE)
    \/ \E j \in Jobs : CaptureDone(j, TRUE)
    \/ \E j \in Jobs : StopDone(j, TRUE)
    \/ \E j \in Jobs, ctorOk \in BOOLEAN : Settle(j, ctorOk)
    \/ cancelAll

Spec == Init /\ [][Next]_vars

\* RenderSpec: the render pipeline in full.  Up to RenderJobs jobs of every
\* format and frame rate; every awaited call may fail.
NextRender ==
    \/ \E t \in Tasks, pre \in BOOLEAN, ctorOk \in BOOLEAN :
            submitted < RenderJobs /\ exportTask(t, pre, ctorOk)
    \/ \E j \in Jobs : Abort(j)
    \/ \E j \in Jobs, o \in {"ok", "loadError", "noAnimation"}, sup \in BOOLEAN :
            LoadDone(j, o, sup)
    \/ \E j \in Jobs, ok \in BOOLEAN : Mp4StartDone(j, ok)
    \/ \E j \in Jobs, ok \in BOOLEAN : CaptureDone(j, ok)
    \/ \E j \in Jobs, ok \in BOOLEAN : StopDone(j, ok)
    \/ \E j \in Jobs, ctorOk \in BOOLEAN : Settle(j, ctorOk)
    \/ cancelAll

RenderSpec == Init /\ [][NextRender]_vars

\* FrameSpec: one job alone, of any format, frame rate and duration.
\* task.duration: -1 stands for an absent field (undefined fails the test
\* `duration && duration > 0` as a number not above 0 does); 10 frames a
\* second is there for a one-second job of ten frames.
FrameTasks == [format : Formats, fps : 1..MaxFps \cup {10},
               duration : {-1, 0, 5, 10, 15}, totalTime : {0, 5, 10, 15}]

NextFrame ==
    \/ \E t \in FrameTasks, ctorOk \in BOOLEAN :
            submitted = 0 /\ exportTask(t, FALSE, ctorOk)
    \/ \E j \in Jobs : Abort(j)
    \/ \E j \in Jobs, o \in {"ok", "loadError"}, sup \in BOOLEAN :
            LoadDone(j, o, sup)
    \/ \E j \in Jobs, ok \in BOOLEAN : Mp4StartDone(j, ok)
    \/ \E j \in Jobs, ok \in BOOLEAN : CaptureDone(j, ok)
    \/ \E j \in Jobs, ok \in BOOLEAN : StopDone(j, ok)
    \/ \E j \in Jobs, ctorOk \in BOOLEAN : Settle(j, ctorOk)

FrameSpec == Init /\ [][NextFrame]_vars

\* SiblingSpec: jobs failing next to each other.  One job more than there
\* are slots, each of any format and of one frame; every awaited call may
\* fail; no signal is set.
SiblingTasks == {t \in Tasks : t.fps = 1}

NextSibling ==
    \/ \E t \in SiblingTasks, ctorOk \in BOOLEAN :
            submitted < maxConcurrent + 1 /\ exportTask(t, FALSE, ctorOk)
    \/ \E j \in Jobs, o \in {"ok", "loadError", "noAnimation"}, sup \in BOOLEAN :
            LoadDone(j, o, sup)
    \/ \E j \in Jobs, ok \in BOOLEAN : Mp4StartDone(j, ok)
    \/ \E j \in Jobs, ok \in BOOLEAN : CaptureDone(j, ok)
    \/ \E j \in Jobs, ok \in BOOLEAN : StopDone(j, ok)
    \/ \E j \in Jobs, ctorOk \in BOOLEAN : Settle(j, ctorOk)

SiblingSpec == Init /\ [][NextSibling]_vars

\* BatchSpec: one call of processExportWithOffscreen with its own
\* ExportManager.  Up to two items of up to two animations each; a scan may
\* fail; a job succeeds or fails in load; the run may be aborted at any time.
NextBatch ==
    \/ \E sel \in Selections, fmt \in BatchFormats, ok \in BOOLEAN :
            processExportWithOffscreen(sel, fmt, ok)
    \/ \E ok \in BOOLEAN, anims \in AnimLists, ctorOk \in BOOLEAN :
            ScanDone(ok, anims, ctorOk)
    \/ \E j \in Jobs, o \in {"ok", "loadError"} : LoadDone(j, o, TRUE)
    \/ \E j \in Jobs : CaptureDone(j, TRUE)
    \/ \E j \in Jobs : StopDone(j, TRUE)
    \/ \E j \in Jobs, ctorOk \in BOOLEAN : ExportTaskDone(j, ctorOk)
    \/ \E ok \in BOOLEAN : ZipDone(ok)
    \/ AbortRun

BatchSpec == Init /\ [][NextBatch]_vars

\* FormatSpec: a batch of one or two assets in every format the format list
\* of the application offers and in a format of no family the code names;
\* every scan and every job succeeds unless the host has no WebCodecs.
ExportFormats ==
    {"png-sequence", "jpg-sequence", "mp4-h264", "webm-vp9", "webm-vp8", "mp4"}

NextFormat ==
    \/ \E sel \in {<<"A">>, <<"A", "B">>}, fmt \in ExportFormats :
            processExportWithOffscreen(sel, fmt, TRUE)
    \/ \E anims \in {<<"idle">>, <<"idle", "run">>} : ScanDone(TRUE, anims, TRUE)
    \/ \E j \in Jobs, supported \in BOOLEAN : LoadDone(j, "ok", supported)
    \/ \E j \in Jobs : Mp4StartDone(j, TRUE)
    \/ \E j \in Jobs : CaptureDone(j, TRUE)
    \/ \E j \in Jobs : StopDone(j, TRUE)
    \/ \E j \in Jobs : ExportTaskDone(j, TRUE)
    \/ ZipDone(TRUE)

FormatSpec == Init /\ [][NextFormat]_vars

\* ColorSpec: setBackgroundColor called again and again on one renderer,
\* with 'transparent', '#RRGGBB' and '#RRGGBBAA' of the bytes ColorBytes.
ColorBytes == {<<"1", "1">>, <<"2", "2">>, <<"3", "3">>, <<"8", "0">>,
               <<"f", "f">>}

ColorInputs ==
    {Transparent}
        \cup {<<"#">> \o r \o g \o b : r \in ColorBytes, g \in ColorBytes,
                                       b \in ColorBytes}
        \cup {<<"#">> \o r \o g \o b \o a : r \in ColorBytes, g \in ColorBytes,
                                            b \in ColorBytes, a \in ColorBytes}

NextColor == \E hex \in ColorInputs : setBackgroundColor(hex)

ColorSpec == Init /\ [][NextColor]_vars

\* SurfaceSpec: one SpineRenderer, loaded up to MaxLoads times with complete
\* and incomplete assets, started, stopped and disposed in any order.
NextSurface ==
    \/ \E files \in SpineFiles : load(files)
    \/ \E outcome \in {"parseError", "poseError", "boundsError", "ok"} :
            LoadResumes(outcome)
    \/ start
    \/ stop
    \/ dispose

SurfaceSpec == Init /\ [][NextSurface]_vars

\* FairSpec: Spec where every awaited call of a running job finishes and the
\* continuation waiting for it runs (the event loop runs every ready task)
JobProgress(j) ==
    \/ \E o \in {"ok", "loadError"} : LoadDone(j, o, TRUE)
    \/ CaptureDone(j, TRUE)
    \/ StopDone(j, TRUE)
    \/ \E ctorOk \in BOOLEAN : Settle(j, ctorOk)

FairSpec == Spec /\ \A j \in Jobs : WF_vars(JobProgress(j))

\* ------------------------------------------------------------------ claims
Running == {"load", "mp4start", "capture", "stop", "returned", "thrown"}

Submitted(j) == j <= submitted

\* C1: the active set never holds more than maxConcurrent renderers, in any
\* state, whatever the interleaving of exportTask, completions and cancelAll.
C1_ActiveWithinCap == Cardinality(activeRenderers) <= maxConcurrent

\* C1 witness: the cap is reached while a further job waits in the queue.
C1_Witness == Cardinality(activeRenderers) = maxConcurrent /\ Len(queue) > 0

\* C2: at most maxConcurrent renderers are constructed with their job not
\* yet settled.
C2_AliveWithinCap ==
    Cardinality({j \in Jobs : constructed[j] /\ promise[j] = "pending"})
        <= maxConcurrent

\* C3: every submitted job eventually has its promise settled, whichever
\* step of it fails, and no queued job stays unadmitted forever.
C3_EverySubmittedJobSettles ==
    \A j \in Jobs : Submitted(j) ~> (promise[j] # "pending")

\* C4: a job's promise is settled at most once and its render is started at
\* most once; a job with a settled promise is neither queued nor running;
\* a job settled without having run was rejected as cancelled.
C4_OnePathPerJob ==
    \A j \in Jobs :
        /\ settles[j] <= 1
        /\ starts[j] <= 1
        /\ promise[j] # "pending" =>
              /\ pc[j] = "settled"
              /\ settles[j] = 1
              /\ j \notin activeRenderers
              /\ \A i \in 1..Len(queue) : queue[i] # j
        /\ (promise[j] # "pending" /\ starts[j] = 0) =>
              (promise[j] = "rejected" /\ error[j] = "AbortError")
        /\ promise[j] = "resolved" => starts[j] = 1

\* C4 witness: the three paths have each been taken by some job.
C4_Witness ==
    /\ \E j \in Jobs : promise[j] = "resolved" /\ starts[j] = 1
    /\ \E j \in Jobs : promise[j] = "rejected" /\ starts[j] = 1
    /\ \E j \in Jobs : promise[j] = "rejected" /\ starts[j] = 0

\* Only exportTask calls of non-cancelled tasks have happened so far.
Burst ==
    \A j \in Jobs : Submitted(j) =>
        ~aborted[j] /\ ~disposed[j] /\ pc[j] \in {"queued", "load", "lost"}

Started == {j \in Jobs : starts[j] > 0}

\* C5: N >= 2 non-cancelled jobs submitted back-to-back to an idle scheduler
\* start exactly 2 runners at once; a job that waited in the queue starts
\* only in the step in which an earlier job settles, one job per such step.
C5_TwoAtOnceRestOnSettle ==
    /\ [](Burst /\ submitted >= 2 =>
            /\ Cardinality(Started) = maxConcurrent
            /\ Len(queue) = submitted - maxConcurrent)
    /\ [][\A j \in Jobs : (pc[j] = "queued" /\ starts'[j] > starts[j]) =>
            /\ \E k \in Jobs : pc[k] \in {"returned", "thrown"}
                               /\ pc'[k] = "settled"
            /\ Cardinality({i \in Jobs : starts'[i] > starts[i]}) = 1]_vars

\* C6: runners are started in submission order (job ids are submission
\* order), whatever the order in which running jobs complete.
C6_StartedInFifoOrder ==
    \A a, b \in 1..Len(startOrder) : a < b => startOrder[a] < startOrder[b]

\* C6 witness: every job was started and the first one is still loading, so
\* later jobs completed before it.
C6_Witness == Len(startOrder) = MaxJobs /\ pc[1] = "load"

\* C7: a job whose signal is set when it leaves the queue is rejected with
\* AbortError, no renderer is constructed for it and it is not made active.
C7_PreCancelledNeverConstructed ==
    [][\A j \in Jobs :
        (pc[j] \in {"idle", "queued"} /\ pc'[j] \notin {"idle", "queued"}
            /\ aborted'[j]) =>
        /\ promise'[j] = "rejected"
        /\ error'[j] = "AbortError"
        /\ ~constructed'[j]
        /\ starts'[j] = 0
        /\ j \notin activeRenderers']_vars

\* C7 witness: a cancelled job was rejected unconstructed and a job submitted
\* after it was started.
C7_Witness ==
    \E j, k \in Jobs :
        /\ j < k
        /\ aborted[j] /\ promise[j] = "rejected" /\ ~constructed[j]
        /\ starts[k] = 1

\* C8: no slot stays free while a non-cancelled job is queued, and the step
\* that rejects a pre-cancelled head goes on until it starts a job or the
\* queue is empty.
C8_NoStallBehindCancelled ==
    /\ [](Cardinality(activeRenderers) < maxConcurrent =>
            \A i \in 1..Len(queue) : aborted[queue[i]])
    /\ [][(\E j \in Jobs : pc[j] \in {"idle", "queued"} /\ aborted'[j]
                           /\ pc'[j] = "settled") =>
            (queue' = <<>> \/ \E k \in Jobs : starts'[k] > starts[k])]_vars

\* C9: cancelAll rejects every queued job with AbortError, empties the queue
\* and leaves getQueueLength() = 0.
C9_CancelAllEmptiesQueue ==
    [][cancelAll =>
        /\ queue' = <<>>
        /\ getQueueLength' = 0
        /\ \A j \in Jobs : pc[j] = "queued" =>
              (promise'[j] = "rejected" /\ error'[j] = "AbortError"
               /\ pc'[j] = "settled")]_vars

\* C9 witness: a queued job whose signal was not set has been rejected (only
\* cancelAll does that), a running job's renderer was disposed under it, and
\* the queue length is 0.
C9_Witness ==
    /\ getQueueLength = 0
    /\ \E j \in Jobs : promise[j] = "rejected" /\ starts[j] = 0 /\ ~aborted[j]
    /\ \E k \in Jobs : disposed[k] /\ pc[k] \in Running

\* C10: a job that was active when cancelAll was called and still has a
\* frame-boundary check ahead observes the cancellation at that check:
\* it renders no further frame and ends cancelled.
C10_CancelAllStopsActiveJobs ==
    [][\A j \in Jobs :
        (/\ disposed[j]
         /\ \/ pc[j] = "capture" /\ frame[j] < TotalFrames(task[j])
            \/ pc[j] = "mp4start"
         /\ (CaptureDone(j, TRUE) \/ Mp4StartDone(j, TRUE))) =>
        /\ frame'[j] = frame[j]
        /\ pc'[j] = "thrown"
        /\ error'[j] = "AbortError"]_vars

\* C11 as stated: a job that ran to completion, in any output format, has
\* advanced the animation exactly ceil(duration * fps) times by 1/fps and
\* has issued exactly as many capture calls to its backend.
C11_FramesAdvancedAndCaptured ==
    \A j \in Jobs : pc[j] = "returned" =>
        /\ frame[j] = Ceil(RecordDuration(task[j]) * task[j].fps, 10)
        /\ Len(shots[j]) = frame[j]

\* C11 amended: a job that ran to completion has advanced the animation
\* exactly ceil(duration * fps) times; an image-sequence or mp4-h264 job has
\* issued exactly as many capture calls, a stream job has issued none.
C11_FramesCapturedWhereCaptureIsPerFrame ==
    \A j \in Jobs : pc[j] = "returned" =>
        /\ frame[j] = Ceil(RecordDuration(task[j]) * task[j].fps, 10)
        /\ Len(shots[j]) =
              IF IsImageSequence(task[j]) \/ IsMP4H264(task[j])
              THEN frame[j] ELSE 0

\* C11 witness: an image-sequence job of 1.0 s at 10 frames a second has
\* run to completion with ten stills.
C11_Witness ==
    \E j \in Jobs :
        /\ pc[j] = "returned"
        /\ task[j].format = "png-sequence"
        /\ task[j].fps = 10 /\ task[j].duration = 10
        /\ Len(shots[j]) = 10

\* C12: the frame captured at index i (0-based) shows the animation at time
\* i/fps after the cursor reset (shots counts in steps of 1/fps), so the
\* captured times rise by one step per index, none skipped or repeated.
C12_FrameIndexIsCapturedTime ==
    \A j \in Jobs : \A i \in 1..Len(shots[j]) : shots[j][i] = i - 1

C14_AbortEndsFrameLoop ==
    [][\A j \in Jobs :
        /\ (/\ aborted[j]
            /\ pc[j] \in {"capture", "mp4start"}
            /\ frame[j] < TotalFrames(task[j])
            /\ (CaptureDone(j, TRUE) \/ Mp4StartDone(j, TRUE))) =>
                /\ pc'[j] = "thrown" /\ error'[j] = "AbortError"
                /\ frame'[j] = frame[j] /\ shots'[j] = shots[j]
        /\ (pc[j] = "thrown" /\ error[j] = "AbortError") =>
                /\ frame'[j] <= frame[j]
                /\ Len(shots'[j]) <= Len(shots[j])
                /\ pc'[j] # "thrown" =>
                      (promise'[j] = "rejected" /\ error'[j] = "AbortError")]_vars

\* C14 witness: a job was cancelled between two frames: it has rendered
\* some of its frames, not all, and has left the loop with AbortError.
C14_Witness ==
    \E j \in Jobs :
        /\ aborted[j] /\ pc[j] = "thrown" /\ error[j] = "AbortError"
        /\ 0 < frame[j] /\ frame[j] < TotalFrames(task[j])

\* C15: whichever way a job whose capture backend was started leaves
\* renderToVideo (success, an error during a frame, cancellation in the
\* frame loop), stop() was called on the backend before the job settles.
C15_BackendStoppedOnEveryExit ==
    \A j \in Jobs : pc[j] \in {"returned", "thrown"} => backend[j] # "started"

\* C16: when a job the scheduler started ends, by success or by any error,
\* the same step disposes its renderer, removes it from the active set and
\* then runs admission again: with a slot free and a job queued, the head
\* of the queue is taken.  No started job is settled and left undisposed.
C16_CleanupThenAdmission ==
    /\ [](\A j \in Jobs : (starts[j] > 0 /\ promise[j] # "pending") =>
            (disposed[j] /\ j \notin activeRenderers))
    /\ [][\A j \in Jobs :
            (pc[j] \in {"returned", "thrown"} /\ pc'[j] = "settled") =>
                /\ disposed'[j]
                /\ j \notin activeRenderers'
                /\ (queue # <<>>
                        /\ Cardinality(activeRenderers \ {j}) < maxConcurrent)
                    => Len(queue') < Len(queue)]_vars

\* C16 witness: a job that failed in load has been settled and disposed,
\* and a job that had to wait in the queue was started.
C16_Witness ==
    /\ Len(startOrder) > maxConcurrent
    /\ \E j \in Jobs : /\ promise[j] = "rejected" /\ error[j] = "LoadError"
                       /\ disposed[j] /\ j \notin activeRenderers

\* C17: an mp4-h264 job on a host where isWebCodecsSupported() answers
\* false fails when its assets are loaded, before any frame: no
\* updateAndRender call, no capture call, no MP4Recorder started; and a job
\* that failed for that reason has never advanced or captured a frame.
C17_UnsupportedFailsBeforeFrames ==
    /\ [](\A j \in Jobs : error[j] = "Unsupported" =>
            /\ pc[j] \in {"thrown", "settled"}
            /\ frame[j] = 0 /\ shots[j] = <<>> /\ backend[j] = "none")
    /\ [][\A j \in Jobs :
            (IsMP4H264(task[j]) /\ ~aborted[j] /\ LoadDone(j, "ok", FALSE)) =>
                /\ pc'[j] = "thrown" /\ error'[j] = "Unsupported"
                /\ frame'[j] = 0 /\ shots'[j] = <<>>
                /\ backend'[j] = "none"]_vars

\* C17 witness: an mp4-h264 job has been rejected as unsupported.
C17_Witness ==
    \E j \in Jobs :
        /\ IsMP4H264(task[j])
        /\ promise[j] = "rejected" /\ error[j] = "Unsupported"
        /\ starts[j] = 1

\* C18: the step that settles a failed job (load error, unsupported
\* encoder, encode error in or after the frames) rejects that job's promise
\* with its error and no other promise; every other active job stays
\* active where it stands; the failed job's slot is freed; and when a job
\* is queued and a slot is free, a queued job is started.
C18_FailureStaysWithItsJob ==
    [][\A j \in Jobs :
        (pc[j] = "thrown" /\ pc'[j] = "settled") =>
            /\ promise'[j] = "rejected" /\ error'[j] = error[j]
            /\ j \notin activeRenderers'
            /\ \A k \in Jobs \ {j} :
                    /\ promise'[k] = promise[k]
                    /\ k \in activeRenderers =>
                          /\ k \in activeRenderers'
                          /\ pc'[k] = pc[k] /\ frame'[k] = frame[k]
                          /\ error'[k] = error[k]
            /\ (queue # <<>>
                    /\ Cardinality(activeRenderers \ {j}) < maxConcurrent) =>
                  \E k \in Jobs : /\ pc[k] = "queued"
                                   /\ starts'[k] = 1
                                   /\ k \in activeRenderers']_vars

Last(q) == q[Len(q)]

\* the tasks enumerated for item i
TasksOf(tks, i) == {k \in 1..Len(tks) : tks[k].item = i}

\* what a scan step owes the asset it has loaded: a 'failed' event and no
\* job if the load failed; else one job per animation name found, and no
\* other; the jobs found before are kept
ScannedItemServed(ok, anims) ==
    LET i == scanned + 1
    IN  /\ \A k \in 1..Len(tasks) : tasks'[k] = tasks[k]
        /\ ~ok => /\ Last(status'[i]) = "failed"
                  /\ TasksOf(tasks', i) = {}
        /\ ok =>  /\ \A e \in 1..Len(status'[i]) : status'[i][e] # "failed"
                  /\ Cardinality(TasksOf(tasks', i)) = Len(anims)
                  /\ \A a \in 1..Len(anims) :
                        Cardinality({k \in TasksOf(tasks', i) :
                            tasks'[k].animation = anims[a]}) = 1

\* C19 as stated: in the scan phase an asset whose load fails gets a
\* 'failed' status event and contributes no job, and every other selected
\* asset is still scanned (the scan goes on to the next asset, if there is
\* one) and contributes exactly one job per discovered animation name.
C19_ScanFailureSkipsOnlyThatAsset ==
    [][\A ok \in BOOLEAN, anims \in AnimLists :
        (\E c \in BOOLEAN : ScanDone(ok, anims, c)) =>
            /\ ScannedItemServed(ok, anims)
            /\ scanned + 1 < Len(selectedItems) =>
                  (bpc' = "scan" /\ scanned' = scanned + 1)]_vars

\* C19 amended: the same, the scan going on to the next asset unless the
\* run-level abort signal is set, which ends the scan.
C19_ScanFailureSkipsOnlyThatAssetUnlessAborted ==
    [][\A ok \in BOOLEAN, anims \in AnimLists :
        (\E c \in BOOLEAN : ScanDone(ok, anims, c)) =>
            /\ ScannedItemServed(ok, anims)
            /\ scanned + 1 < Len(selectedItems) =>
                  IF runAborted THEN bpc' # "scan"
                  ELSE bpc' = "scan" /\ scanned' = scanned + 1]_vars

\* C19 witness: the scan of the first of two assets failed and the second
\* one, scanned after it, contributed its two jobs.
C19_Witness ==
    /\ Len(selectedItems) = 2
    /\ status[1] = <<"waiting", "failed">>
    /\ Len(tasks) = 2
    /\ tasks[1].item = 2 /\ tasks[2].item = 2
    /\ tasks[1].animation # tasks[2].animation
    /\ bpc = "wait"

\* the scan of item i failed: only a failed scan gives 'failed' to an item
\* without jobs
ScanFailed(i) ==
    /\ TasksOf(tasks, i) = {}
    /\ \E e \in 1..Len(status[i]) : status[i][e] = "failed"

\* C20: when a non-cancelled batch returns, the last status reported for
\* an asset whose scan failed is 'failed', the last status reported for an
\* asset whose jobs all succeeded is 'completed', and the value returned is
\* the number of jobs that succeeded.
C20_LastStatusTellsTheOutcome ==
    (bpc = "returned" /\ ~runAborted) =>
        /\ \A i \in 1..Len(selectedItems) :
              /\ ScanFailed(i) => Last(status[i]) = "failed"
              /\ (/\ TasksOf(tasks, i) # {}
                  /\ \A k \in TasksOf(tasks, i) : promise[k] = "resolved")
                 => Last(status[i]) = "completed"
        /\ result = Cardinality({k \in 1..Len(tasks) : promise[k] = "resolved"})

\* the jobs of the batch whose promise was resolved
Succeeded == {k \in 1..Len(tasks) : promise[k] = "resolved"}

\* C21: whatever the selected assets are called, the archive a
\* non-cancelled batch emits holds exactly one entry per successful
\* (asset, animation) job, and as many entries as the count returned.
C21_OneArchiveEntryPerSuccess ==
    (downloaded /\ ~runAborted) =>
        /\ Cardinality(zip) = Cardinality(Succeeded)
        /\ Cardinality(zip) = result

\* the 'failed' events among the status events q
NumFailed(q) == Cardinality({e \in 1..Len(q) : q[e] = "failed"})

\* C22: a job that settles as cancelled (rejected with AbortError, the
\* run-level signal being set) is not a failure: a step in which the only
\* promises settled are rejected with AbortError emits no 'failed' status
\* event for any asset.
C22_CancelledJobIsNotFailed ==
    [][(/\ \E k \in 1..Len(tasks) : promise'[k] # promise[k]
        /\ \A k \in 1..Len(tasks) : promise'[k] # promise[k] =>
                (promise'[k] = "rejected" /\ error'[k] = "AbortError")) =>
        \A i \in 1..Len(selectedItems) :
            NumFailed(status'[i]) = NumFailed(status[i])]_vars

\* C23: with the run-level abort signal set by the time the last submitted
\* job has settled (or no job was submitted because of it), the call
\* returns without archive and without download, and what it returns is
\* the count of the results recorded before the signal was observed; a job
\* that settles while the signal is set is neither counted nor added to
\* the archive.
C23_CancelledRunReturnsPartialCount ==
    [][/\ (runAborted /\ bpc \in {"scan", "wait"}
            /\ bpc' \notin {"scan", "wait"}) =>
                /\ bpc' = "returned"
                /\ ~downloaded'
                /\ result' = completed
       /\ (runAborted /\ \E k \in 1..Len(tasks) : promise'[k] # promise[k]) =>
                (completed' = completed /\ zip' = zip)
       /\ (runAborted /\ bpc = "returned") =>
                (~downloaded' /\ result' = result)]_vars

\* C23 witness: a cancelled run has returned with one result recorded
\* before the signal was set and one job that succeeded after it.
C23_Witness ==
    /\ bpc = "returned" /\ runAborted /\ ~downloaded
    /\ result = 1 /\ Cardinality(zip) = 1
    /\ Cardinality(Succeeded) = 2

C25_BatchErrorFailsEveryAsset ==
    /\ [](bpc = "thrown" =>
            \A i \in 1..Len(selectedItems) : Last(status[i]) = "failed")
    /\ [][/\ ((\E sel \in Selections, fmt \in BatchFormats :
                    processExportWithOffscreen(sel, fmt, FALSE))
                        => bpc' = "thrown")
           /\ (ZipDone(FALSE) => (bpc' = "thrown" /\ ~downloaded'))]_vars

\* C25 witness: generating the archive failed after a job of each of two
\* assets had succeeded.
C25_Witness ==
    /\ bpc = "thrown" /\ ~downloaded
    /\ Len(selectedItems) = 2 /\ completed = 2
    /\ \A i \in 1..Len(selectedItems) :
            status[i] = <<"waiting", "exporting", "failed">>

\* the extension C26 gives for the format of the batch
C26_Extension ==
    IF configFormat \in {"png-sequence", "jpg-sequence"} THEN "zip"
    ELSE IF configFormat = "mp4-h264" THEN "mp4"
    ELSE IF configFormat \in {"webm-vp9", "webm-vp8"} THEN "webm"
    ELSE "mp4"

\* C26: each successful job is stored in the archive under the key
\* '<assetName>_<animationName>.<ext>', where ext is 'zip' for png-sequence
\* and jpg-sequence, 'mp4' for mp4-h264, 'webm' for any other format whose
\* name starts with 'webm', and 'mp4' for every remaining format.
C26_ArchiveKeyOfAJob ==
    [][LET new == {k \in 1..Len(tasks) :
                        promise[k] = "pending" /\ promise'[k] = "resolved"}
       IN  zip' = zip \cup
                {Chars(selectedItems[tasks[k].item]) \o <<"_">>
                    \o Chars(tasks[k].animation) \o <<".">>
                    \o Chars(C26_Extension) : k \in new}]_vars

\* C26 witness: a webm-vp8 batch stored the job of animation run of asset B.
C26_Witness ==
    /\ configFormat = "webm-vp8"
    /\ <<"B", "_", "r", "u", "n", ".", "w", "e", "b", "m">> \in zip
    /\ downloaded

\* the number a byte of ColorBytes writes
C27_Byte(b) ==
    CASE b = <<"1", "1">> -> 17
      [] b = <<"2", "2">> -> 34
      [] b = <<"3", "3">> -> 51
      [] b = <<"8", "0">> -> 128
      [] b = <<"f", "f">> -> 255

\* C27: setBackgroundColor maps 'transparent' to (0,0,0) with alpha 0,
\* '#RRGGBB' to the three bytes over 255 with alpha 1 ('#112233' gives
\* (17,34,51)/255, opaque), and '#RRGGBBAA' to the same colour with alpha
\* AA/255 ('#11223380' gives alpha 128/255).
C27_BackgroundColorOfHex ==
    /\ hexArg = Transparent => bgColor = <<0, 0, 0, 0>>
    /\ \A r \in ColorBytes, g \in ColorBytes, b \in ColorBytes :
            /\ hexArg = <<"#">> \o r \o g \o b =>
                    bgColor = <<C27_Byte(r), C27_Byte(g), C27_Byte(b), 255>>
            /\ \A a \in ColorBytes :
                    hexArg = <<"#">> \o r \o g \o b \o a =>
                        bgColor = <<C27_Byte(r), C27_Byte(g), C27_Byte(b),
                                    C27_Byte(a)>>
    /\ hexArg = <<"#", "1", "1", "2", "2", "3", "3">> =>
            bgColor = <<17, 34, 51, 255>>
    /\ hexArg = <<"#", "1", "1", "2", "2", "3", "3", "8", "0">> =>
            bgColor = <<17, 34, 51, 128>>

\* C27 witness: setBackgroundColor('#11223380') was called.
C27_Witness ==
    /\ hexArg = <<"#", "1", "1", "2", "2", "3", "3", "8", "0">>
    /\ bgColor = <<17, 34, 51, 128>>

\* C28: when the scan yields no job (no asset loads with an animation, or
\* the run is cancelled before any asset is scanned) the call returns 0 at
\* once: no job is submitted, no progress event is emitted and no archive
\* is produced.
C28_NoJobsReturnsZeroAtOnce ==
    /\ (bpc = "returned" /\ Len(tasks) = 0) =>
            /\ result = 0
            /\ submitted = 0
            /\ progress = <<>>
            /\ zip = {} /\ ~downloaded
    /\ (bpc \in {"wait", "zip"} \/ submitted > 0) => Len(tasks) > 0

\* C28 witness: two assets were scanned, one failed to load and one has no
\* animation, and the call returned.
C28_Witness ==
    /\ bpc = "returned" /\ ~runAborted
    /\ Len(selectedItems) = 2 /\ scanned = 2 /\ Len(tasks) = 0
    /\ \E i \in 1..2 : Last(status[i]) = "failed"
    /\ \E i \in 1..2 : Last(status[i]) = "waiting"
    /\ result = 0

\* C29: a job whose animation name is not in the list load returned fails
\* with that error before any configuration (resize, setAnimation, reset)
\* is applied to its renderer and before any frame is advanced or captured;
\* no capture backend is created for it.
C29_MissingAnimationFailsFirst ==
    /\ [](\A j \in Jobs :
            (pc[j] = "thrown" /\ error[j] = "AnimationNotFound") =>
                /\ ~configured[j]
                /\ frame[j] = 0 /\ shots[j] = <<>>
                /\ backend[j] = "none")
    /\ [][\A j \in Jobs, sup \in BOOLEAN :
            LoadDone(j, "noAnimation", sup) =>
                /\ pc'[j] = "thrown" /\ error'[j] = "AnimationNotFound"
                /\ promise'[j] = "pending"]_vars
    /\ [][\A j \in Jobs :
            (pc[j] = "thrown" /\ error[j] = "AnimationNotFound"
                /\ pc'[j] # pc[j]) =>
                    (promise'[j] = "rejected"
                        /\ error'[j] = "AnimationNotFound")]_vars

\* C29 witness: the job failed for its missing animation, with the signal
\* set as well, and its promise is rejected with that error.
C29_Witness ==
    \E j \in Jobs :
        /\ promise[j] = "rejected" /\ error[j] = "AnimationNotFound"
        /\ aborted[j]
        /\ task[j].format = "mp4-h264"

\* C30: cancellation never cuts a frame in two.  For image-sequence and
\* mp4-h264 jobs every updateAndRender call is followed by the capture call
\* of the same frame, whatever the abort signal is, so when a job ends as
\* cancelled it has issued as many capture calls as updateAndRender calls.
C30_CaptureFollowsEveryRender ==
    /\ [](\A j \in Jobs :
            (j <= submitted
                /\ (IsImageSequence(task[j]) \/ IsMP4H264(task[j]))) =>
                    Len(shots[j]) = frame[j])
    /\ [][\A j \in Jobs :
            (/\ j <= submitted
             /\ IsImageSequence(task[j]) \/ IsMP4H264(task[j])
             /\ frame'[j] = frame[j] + 1) =>
                    (Len(shots'[j]) = Len(shots[j]) + 1 /\ pc'[j] = "capture")]_vars

\* C30 witness: an mp4-h264 job was cancelled after its first frame.
C30_Witness ==
    \E j \in Jobs :
        /\ pc[j] = "thrown" /\ error[j] = "AbortError"
        /\ task[j].format = "mp4-h264"
        /\ frame[j] = 1 /\ Len(shots[j]) = 1

\* C31: for an mp4-h264 job the timestamp passed to encodeFrame for frame
\* index i is i * 1000000 / fps microseconds: 0 for the first frame and
\* larger by 1000000 / fps for each frame after it, whatever time the
\* encode calls take.
C31_EncodeTimestamps ==
    \A j \in Jobs :
        (j <= submitted /\ IsMP4H264(task[j])) =>
            /\ Len(stamps[j]) = frame[j]
            /\ \A n \in 1..Len(stamps[j]) :
                    /\ stamps[j][n].den > 0
                    /\ stamps[j][n].num * task[j].fps
                            = (n - 1) * 1000000 * stamps[j][n].den
            /\ Len(stamps[j]) > 0 => stamps[j][1].num = 0
            /\ \A n \in 1..(Len(stamps[j]) - 1) :
                    LET a == stamps[j][n]
                        b == stamps[j][n + 1]
                    IN  /\ b.num * a.den > a.num * b.den
                        /\ (b.num * a.den - a.num * b.den) * task[j].fps
                                = 1000000 * a.den * b.den

\* C31 witness: an mp4-h264 job at 2 frames per second encoded three frames,
\* the third at one second.
C31_Witness ==
    \E j \in Jobs :
        /\ task[j].format = "mp4-h264" /\ task[j].fps = 2
        /\ Len(stamps[j]) = 3
        /\ stamps[j][3] = [num |-> 2000000, den |-> 2]

\* C32: the submission phase hands every job to the scheduler without
\* waiting for an earlier one: in a run that is not cancelled, as long as
\* no job has settled, every enumerated job is queued or active
\* (getQueueLength() = totalTasks).
C32_AllJobsHandedOverAtOnce ==
    (bpc = "wait" /\ ~runAborted /\ \A k \in 1..Len(tasks) : settles[k] = 0) =>
        /\ submitted = Len(tasks)
        /\ getQueueLength = Len(tasks)
        /\ \A k \in 1..Len(tasks) : k \in activeRenderers \/ pc[k] = "queued"

\* C33: once the abort signal of the run is set during the scan, the scan
\* renderer loads no further asset (the load in flight is the last), no
\* job is submitted to the scheduler and no OffscreenRenderer is
\* constructed for the run, even if jobs were already enumerated.
C33_AbortDuringScanStopsTheRun ==
    [][/\ (runAborted /\ bpc = "scan") =>
                /\ bpc' = "returned"
                /\ scanned' = scanned + 1
       /\ (runAborted /\ bpc = "idle" /\ bpc' # "idle") =>
                /\ bpc' \in {"returned", "thrown"}
                /\ scanned' = 0
       /\ (runAborted /\ bpc \in {"idle", "scan"}) =>
                /\ submitted' = 0 /\ queue' = <<>> /\ activeRenderers' = {}
                /\ \A j \in Jobs : ~constructed'[j] /\ starts'[j] = 0]_vars

\* C33 witness: the signal was set while the first of two assets was
\* loading; its two jobs were enumerated, the second asset was never
\* loaded and nothing was submitted.
C33_Witness ==
    /\ runAborted /\ bpc = "returned"
    /\ Len(selectedItems) = 2 /\ scanned = 1 /\ Len(tasks) = 2
    /\ submitted = 0 /\ \A j \in Jobs : ~constructed[j]

C35_DisposeTwiceIsDisposeOnce ==
    /\ [][dispose => (~isRunning' /\ urls' = {}
                        /\ objectUrls' \cap urls = {})]_vars
    /\ [][(dispose /\ Len(calls) > 0 /\ Last(calls) = "dispose") =>
            UNCHANGED <<skeleton, state, bounds, urls, objectUrls, isRunning,
                        lpc, loading, loadResult>>]_vars
    /\ [](ENABLED dispose)

\* C35 witness: a loaded renderer was disposed twice in a row.
C35_Witness ==
    /\ calls = <<"dispose", "dispose">>
    /\ skeleton = "A" /\ loadResult = "ok"
    /\ ~isRunning /\ urls = {} /\ objectUrls = {}

\* C36: a load call on a renderer that holds an asset first unbinds the
\* skeleton, the animation state and the bounds and revokes the URLs of
\* that asset, then binds the new one; load fails when the skeleton or the
\* atlas file is missing; and after any failed load the renderer holds no
\* bound skeleton and no animation state, of either asset.
C36_LoadRebindsOrLeavesNothing ==
    /\ [][\A files \in SpineFiles :
            load(files) =>
                /\ skeleton' = "null" /\ state' = "null" /\ bounds' = "null"
                /\ objectUrls' \cap urls = {}
                /\ (~files.skeleton \/ ~files.atlas) =>
                        (loadResult' = "failed" /\ lpc' = "idle")]_vars
    /\ [](loadResult = "ok" =>
            (skeleton # "null" /\ state = skeleton))
    /\ [](loadResult = "failed" => (skeleton = "null" /\ state = "null"))

\* C37: whenever processExportWithOffscreen returns or throws, the last
\* status event of every selected asset is terminal ('completed' or
\* 'failed'); none is left 'waiting' or 'exporting', the zero-job return
\* and the cancelled return included.
C37_EveryAssetEndsTerminal ==
    bpc \in {"returned", "thrown"} =>
        \A i \in 1..Len(selectedItems) :
            Last(status[i]) \in {"completed", "failed"}

\* C38: the scheduler is work-conserving: between operations (once the
\* synchronous part of an exportTask call, of a job completion or of
\* cancelAll is over) a non-empty queue means that the active set holds
\* exactly maxConcurrent runners.
C38_WorkConserving ==
    Len(queue) > 0 => Cardinality(activeRenderers) = maxConcurrent

\* C39: in one batch run every progress event carries the same totalJobs,
\* its currentIndex is between 0 and totalJobs, and currentIndex never
\* decreases from one event to the next, in whatever order the jobs
\* complete or fail.
C39_ProgressIsMonotonic ==
    /\ \A n \in 1..Len(progress) :
            /\ progress[n][2] = Len(tasks)
            /\ 0 <= progress[n][1] /\ progress[n][1] <= Len(tasks)
    /\ \A n \in 1..(Len(progress) - 1) : progress[n][1] <= progress[n + 1][1]

\* C39 witness: four jobs, the first failed and the others completed; the
\* archive was downloaded after nine progress events, the last (3, 4).
C39_Witness ==
    /\ bpc = "returned" /\ downloaded
    /\ Len(tasks) = 4 /\ promise[1] = "rejected"
    /\ progress = <<<<0, 4>>, <<1, 4>>, <<1, 4>>, <<1, 4>>, <<1, 4>>,
                    <<1, 4>>, <<2, 4>>, <<3, 4>>, <<3, 4>>>>

====
